---- MODULE Spec2Model ----
(***************************************************************************)
(* A model of src/index.js: the batch import of zip archives into a git    *)
(* repository, one branch and one merge request per archive.               *)
(*                                                                         *)
(* Strings are sequences of tokens (<<"release-1", ".zip">> is the file    *)
(* name release-1.zip), so that endsWith and basename are computed on the  *)
(* name and not assumed.  A path is a sequence of names relative to the    *)
(* process working directory.  The file system is the set of its nodes.    *)
(***************************************************************************)
EXTENDS Integers, Sequences, FiniteSets, TLC

VARIABLES
  pc,                \* position of main: the statement about to run
  fs,                \* the file system below process.cwd()
  knownDirectories,  \* envBasedConfig.knownDirectories
  baseBranch,        \* envBasedConfig.baseBranch
  zipFiles,          \* main's zipFiles
  idx,               \* index in zipFiles of the archive of the current loop turn
  queue,             \* entries of the archive being parsed, not yet emitted
  pending,           \* entry handlers whose file system work is not finished
  head,              \* git: the checked-out branch
  branches,          \* git: local branch -> committed tree
  index,             \* git: the staged tree
  remote,            \* git: branch -> tree on origin
  commits,           \* history: the commit calls
  pushes,            \* history: the push calls
  mrLog,             \* history: the merge-request POSTs and their outcome
  failedAt           \* history: the statement whose failure rejected main

vars == <<pc, fs, knownDirectories, baseBranch, zipFiles, idx, queue, pending, head,
          branches, index, remote, commits, pushes, mrLog, failedAt>>

\* ------------------------------------------------------------------ bounds

\* the most archives in the intake directory
MaxArchives == 2

\* ------------------------------------------------------------------ names

Last(s) == s[Len(s)]
Front(s) == SubSeq(s, 1, Len(s) - 1)

ZipExt == <<".zip">>
GitName == <<".git">>
ZipsName == <<"zips">>
RepositoryName == <<"repository">>

\* String.prototype.endsWith
EndsWith(s, suffix) ==
  /\ Len(suffix) <= Len(s)
  /\ SubSeq(s, Len(s) - Len(suffix) + 1, Len(s)) = suffix

\* node:path basename(path, suffix): the last component of the path, without
\* the suffix unless the suffix is the whole component
basename(path, suffix) ==
  LET name == Last(path)
  IN IF EndsWith(name, suffix) /\ name # suffix
       THEN SubSeq(name, 1, Len(name) - Len(suffix))
       ELSE name

\* envBasedConfig defaults
branchNamePrefix == <<"script-branch">>

\* processZipFile: the branch and the scratch directory of an archive
branchNameOf(zipFile) == branchNamePrefix \o <<"-">> \o basename(zipFile, ZipExt)
tmpDirOf(zipFile) == <<basename(zipFile, ZipExt)>>

zipsDir == <<ZipsName>>
repoDir == <<RepositoryName>>

\* ------------------------------------------------------------ file system

Dir(p) == [path |-> p, kind |-> "dir", data |-> 0]
File(p, d) == [path |-> p, kind |-> "file", data |-> d]

IsPrefix(p, q) == Len(p) <= Len(q) /\ SubSeq(q, 1, Len(p)) = p
Exists(f, p) == \E n \in f : n.path = p
IsDir(f, p) == p = <<>> \/ \E n \in f : n.path = p /\ n.kind = "dir"
IsFile(f, p) == \E n \in f : n.path = p /\ n.kind = "file"
DataAt(f, p) == (CHOOSE n \in f : n.path = p).data

\* promises.rm(p, {recursive: true, force: true})
RmRf(f, p) == {n \in f : ~IsPrefix(p, n.path)}

\* promises.mkdir(p, {recursive: true}) and when it succeeds
MkdirpOk(f, p) == \A k \in 1..Len(p) : ~IsFile(f, SubSeq(p, 1, k))
Mkdirp(f, p) == f \cup {Dir(SubSeq(p, 1, k)) : k \in 1..Len(p)}

\* the file p gets the content d, replacing what it held
WriteFile(f, p, d) == {n \in f : n.path # p} \cup {File(p, d)}

\* promises.readdir(p, {withFileTypes: true}), as a set
Children(f, p) == {n \in f : Len(n.path) = Len(p) + 1 /\ IsPrefix(p, n.path)}

RECURSIVE SeqOf(_)
SeqOf(S) ==
  IF S = {} THEN <<>>
  ELSE LET x == CHOOSE y \in S : TRUE IN <<x>> \o SeqOf(S \ {x})

Reverse(s) == [i \in 1..Len(s) |-> s[Len(s) + 1 - i]]

\* promises.readdir(p, {withFileTypes: true}): the entries in the order the
\* operating system lists them, which is one of two opposite orders here
Readdir(f, p, rev) ==
  IF rev THEN Reverse(SeqOf(Children(f, p))) ELSE SeqOf(Children(f, p))

\* readdirSync(p): the names alone
ReaddirNames(f, p, rev) ==
  LET items == Readdir(f, p, rev) IN [i \in 1..Len(items) |-> Last(items[i].path)]

\* ------------------------------------------------------------ configuration

\* String.prototype.split(";") on a string of tokens
RECURSIVE Split(_)
Split(s) ==
  IF \A i \in 1..Len(s) : s[i] # ";"
    THEN <<s>>
    ELSE LET i == CHOOSE j \in 1..Len(s) :
                    s[j] = ";" /\ \A k \in 1..(j - 1) : s[k] # ";"
         IN <<SubSeq(s, 1, i - 1)>> \o Split(SubSeq(s, i + 1, Len(s)))

\* the values of the environment variable KNOWN_DIRECTORIES
KnownDirectoriesEnv ==
  { [set |-> FALSE, value |-> <<>>],
    [set |-> TRUE, value |-> <<>>],
    [set |-> TRUE, value |-> <<"Q1">>],
    [set |-> TRUE, value |-> <<"Q1", ";", "Q2">>] }

\* envBasedConfig.knownDirectories: undefined when the variable is unset
envKnownDirectories(env) ==
  IF env.set THEN [defined |-> TRUE, list |-> Split(env.value)]
             ELSE [defined |-> FALSE, list |-> <<>>]

\* the values of the environment variable BASE_BRANCH: unset, or the name the
\* branch of release-1.zip gets
BaseBranchEnv ==
  { [set |-> FALSE, value |-> <<>>],
    [set |-> TRUE, value |-> <<"script-branch", "-", "release-1">>] }

\* envBasedConfig.baseBranch: process.env.BASE_BRANCH ?? "main"
envBaseBranch(env) == IF env.set THEN env.value ELSE <<"main">>

\* the environments of a run: every allow-list with BASE_BRANCH unset, and
\* the allow-list Q1 with BASE_BRANCH set
Environments ==
  { env \in [known : KnownDirectoriesEnv, base : BaseBranchEnv] :
      env.base.set => env.known = [set |-> TRUE, value |-> <<"Q1">>] }

\* Array.prototype.includes
Includes(list, name) == \E i \in 1..Len(list) : list[i] = name

\* ------------------------------------------------------------------- walks

\* removeGitFolders(dir): every directory named .git below dir is removed,
\* every other directory is walked
RECURSIVE removeGitFolders(_, _), removeGitItems(_, _)
removeGitItems(f, items) ==
  IF items = <<>> THEN f
  ELSE LET item == Head(items)
           g == IF item.kind = "dir"
                  THEN IF Last(item.path) = GitName
                         THEN RmRf(f, item.path)
                         ELSE removeGitFolders(f, item.path)
                  ELSE f
       IN removeGitItems(g, Tail(items))

removeGitFolders(f, dir) == removeGitItems(f, Readdir(f, dir, FALSE))

\* copyDirectory(src, dest): dest is created, every file below src is copied
\* to the same relative path below dest, replacing what is there
RECURSIVE copyDirectory(_, _, _, _), copyEntries(_, _, _, _)
copyEntries(f, entries, dest, rev) ==
  IF entries = <<>> THEN f
  ELSE LET entry == Head(entries)
           destPath == dest \o <<Last(entry.path)>>
           g == IF entry.kind = "dir"
                  THEN copyDirectory(f, entry.path, destPath, rev)
                  ELSE WriteFile(f, destPath, entry.data)
       IN copyEntries(g, Tail(entries), dest, rev)

copyDirectory(f, src, dest, rev) ==
  LET g == Mkdirp(f, dest)
  IN copyEntries(g, Readdir(g, src, rev), dest, rev)

\* findAndCopyQFolders(srcDir, destDir): [fs, ok, copied]; ok is FALSE when
\* knownDirectories.includes throws because knownDirectories is undefined,
\* copied holds the directories the walk has passed to copyDirectory
RECURSIVE findAndCopyQFolders(_, _, _, _, _), findAndCopyItems(_, _, _, _, _)
\* variant of findAndCopyItems without the recursion into non-matching
\* directories, which C4_OutermostCopied and C14_CopiedIffOutermost tell apart
findAndCopyItemsTopOnly(r, items, destDir, known, rev) ==
  IF items = <<>> \/ ~r.ok THEN r
  ELSE LET item == Head(items)
           g == IF item.kind = "dir"
                  THEN IF ~known.defined
                         THEN [r EXCEPT !.ok = FALSE]
                         ELSE IF Includes(known.list, Last(item.path))
                           THEN [fs |-> copyDirectory(r.fs, item.path,
                                                      destDir \o <<Last(item.path)>>, rev),
                                 ok |-> TRUE,
                                 copied |-> r.copied \cup {item.path}]
                           ELSE r
                  ELSE r
       IN findAndCopyItems(g, Tail(items), destDir, known, rev)

findAndCopyItems(r, items, destDir, known, rev) ==
  IF items = <<>> \/ ~r.ok THEN r
  ELSE LET item == Head(items)
           g == IF item.kind = "dir"
                  THEN IF ~known.defined
                         THEN [r EXCEPT !.ok = FALSE]
                         ELSE IF Includes(known.list, Last(item.path))
                           THEN [fs |-> copyDirectory(r.fs, item.path,
                                                      destDir \o <<Last(item.path)>>, rev),
                                 ok |-> TRUE,
                                 copied |-> r.copied \cup {item.path}]
                           ELSE findAndCopyQFolders(r, item.path, destDir, known, rev)
                  ELSE r
       IN findAndCopyItems(g, Tail(items), destDir, known, rev)

findAndCopyQFolders(r, srcDir, destDir, known, rev) ==
  findAndCopyItems(r, Readdir(r.fs, srcDir, rev), destDir, known, rev)

\* the selector's result before its walk: the file system it starts on, no
\* exception, no directory passed to copyDirectory yet
Walk(f) == [fs |-> f, ok |-> TRUE, copied |-> {}]

\* ---------------------------------------------------------------- archives

\* the archive file names the intake directory may hold
ZipNames ==
  { <<"release-1", ".zip">>, <<"git", ".zip">>, <<".zip">>, <<".zip", ".zip">>,
    <<"zips", ".zip">>, <<"repository", ".zip">> }

\* a file of the intake directory that is no archive
OtherName == <<"notes", ".txt">>

\* the bytes of each file of the intake directory
ArchiveData(name) ==
  CASE name = <<"release-1", ".zip">> -> 101
    [] name = <<"git", ".zip">> -> 102
    [] name = <<".zip">> -> 103
    [] name = <<".zip", ".zip">> -> 104
    [] name = <<"zips", ".zip">> -> 105
    [] name = <<"repository", ".zip">> -> 106
    [] OTHER -> 100

Entry(path, type, data) == [path |-> path, type |-> type, data |-> data]

\* the entries unzipper's Parse emits for a file with these bytes, in order
ArchiveEntries(data) ==
  CASE data = 101 -> << Entry(<< <<"foo">> >>, "Directory", 0),
                        Entry(<< <<"foo">>, <<"Q1">>, <<"report.txt">> >>, "File", 1) >>
    [] data = 102 -> << Entry(<< <<"Q1">>, GitName, <<"config">> >>, "File", 2),
                        Entry(<< <<"Q1">>, <<"a">> >>, "File", 3) >>
    [] data = 103 -> << Entry(<< <<"docs">>, <<"readme">> >>, "File", 4) >>
    [] data = 104 -> << Entry(<< <<"Q1">>, <<"x">> >>, "File", 5),
                        Entry(<< <<"Q2">>, <<"Q1">>, <<"x">> >>, "File", 6) >>
    [] data = 105 -> << Entry(<< <<".zip">> >>, "File", 7) >>
    [] data = 106 -> << Entry(<< GitName >>, "Directory", 0),
                        Entry(<< <<"Q1">>, <<"a">> >>, "File", 8) >>
    [] OTHER -> <<>>

IsArchive(data) == data \in 101..106

\* --------------------------------------------------------------------- git

\* the tree of the base branch on origin
BaseTree == { [path |-> << <<"README">> >>, data |-> 50] }

gitDir == repoDir \o <<GitName>>

\* git commands run in the clone only while its metadata is there
gitHead == gitDir \o << <<"HEAD">> >>
RepoOk(f) == IsFile(f, gitHead)

\* the nodes below the clone that git sees as content: git skips every
\* directory named .git, its own and any other, at any depth
InWorkTree(n) ==
  /\ IsPrefix(repoDir, n.path)
  /\ \A k \in 2..Len(n.path) : n.path[k] # GitName

\* the files git add "." stages, by their path below the clone
WorkTree(f) ==
  { [path |-> SubSeq(n.path, 2, Len(n.path)), data |-> n.data] :
      n \in {m \in f : m.kind = "file" /\ InWorkTree(m)} }

TreePaths(tree) == {t.path : t \in tree}

\* the paths that differ between two trees
TreeDiff(old, new) ==
  {t.path : t \in (old \ new) \cup (new \ old)}

\* the nodes of a tree checked out below the clone
TreeNodes(tree) ==
  UNION { {File(repoDir \o t.path, t.data)}
          \cup {Dir(repoDir \o SubSeq(t.path, 1, k)) : k \in 0..(Len(t.path) - 1)}
          : t \in tree }

\* git checkout of a branch with tree `to` while `from` is checked out: the
\* tracked files of `from` leave, with the directories they leave empty, and
\* the files of `to` are written
Checkout(f, from, to) ==
  LET gone == {n \in f : n.kind = "file" /\ InWorkTree(n)
                          /\ SubSeq(n.path, 2, Len(n.path)) \in TreePaths(from)}
      g == (f \ gone) \cup TreeNodes(to)
      emptied == {n \in g : /\ n.kind = "dir" /\ InWorkTree(n) /\ n.path # repoDir
                            /\ \E m \in gone : IsPrefix(n.path, m.path)
                            /\ ~\E m \in g : m.kind = "file" /\ IsPrefix(n.path, m.path)}
  IN g \ emptied

\* ------------------------------------------------------------------- state

NoFailure == [failed |-> FALSE, idx |-> 0, stage |-> "none", cause |-> "none"]

\* the intake directory with the archives S and one file that is no archive
Intake(S) ==
  {Dir(zipsDir)} \cup {File(zipsDir \o <<name>>, ArchiveData(name)) : name \in S \cup {OtherName}}

Init ==
  /\ pc = "start"
  /\ \/ fs = {}
     \/ \E S \in SUBSET ZipNames : Cardinality(S) <= MaxArchives /\ fs = Intake(S)
  /\ \E env \in Environments :
       /\ knownDirectories = envKnownDirectories(env.known)
       /\ baseBranch = envBaseBranch(env.base)
  /\ zipFiles = <<>>
  /\ idx = 0
  /\ queue = <<>>
  /\ pending = {}
  /\ head = <<>>
  /\ branches = <<>>
  /\ index = {}
  /\ remote = <<>>
  /\ commits = <<>>
  /\ pushes = <<>>
  /\ mrLog = <<>>
  /\ failedAt = NoFailure

zipFile == zipFiles[idx]
branchName == branchNameOf(zipFile)
tmpDir == tmpDirOf(zipFile)

\* variant of OnReject with a try/catch around each loop turn, which
\* C10_FailureEndsRun tells apart
OnRejectIsolated(stage) ==
  IF stage \in {"start", "restore"} THEN "aborted" ELSE "restore"

\* main's loop and main().catch: a rejected await ends the run
OnReject(stage) == "aborted"

\* a statement of main or processZipFile rejects, because of the state the
\* program is in (cause "code") or because its environment fails (cause "env")
Reject(stage, cause) ==
  /\ pc' = OnReject(stage)
  /\ failedAt' = [failed |-> TRUE, idx |-> idx, stage |-> stage, cause |-> cause]

gitVars == <<head, branches, index, remote, commits, pushes>>

\* ----------------------------------------------------------------- actions

\* main, up to the loop: the intake directory, zipFiles, a fresh clone checked
\* out to the base branch
PrepareWorkspace ==
  /\ pc = "start"
  /\ LET f1 == IF Exists(fs, zipsDir) THEN fs ELSE fs \cup {Dir(zipsDir)}
         f2 == IF Exists(f1, repoDir) THEN RmRf(f1, repoDir) ELSE f1
     IN /\ \E rev \in BOOLEAN :
             zipFiles' = LET zips == SelectSeq(ReaddirNames(f1, zipsDir, rev),
                                               LAMBDA n : EndsWith(n, ZipExt))
                         IN [i \in 1..Len(zips) |-> zipsDir \o <<zips[i]>>]
        /\ fs' = f2 \cup {Dir(repoDir), Dir(gitDir), File(gitHead, 60)} \cup TreeNodes(BaseTree)
  /\ head' = baseBranch
  /\ branches' = (baseBranch :> BaseTree)
  /\ remote' = (baseBranch :> BaseTree)
  /\ idx' = 1
  /\ pc' = "begin"
  /\ UNCHANGED <<knownDirectories, baseBranch, queue, pending, index, commits, pushes, mrLog, failedAt>>

\* processZipFile: the scratch directory is made and the archive is opened
BeginArchive ==
  /\ pc = "begin"
  /\ idx <= Len(zipFiles)
  /\ IF MkdirpOk(fs, tmpDir) /\ IsFile(fs, zipFile) /\ IsArchive(DataAt(fs, zipFile))
       THEN /\ fs' = Mkdirp(fs, tmpDir)
            /\ queue' = [i \in 1..Len(ArchiveEntries(DataAt(fs, zipFile))) |->
                           LET e == ArchiveEntries(DataAt(fs, zipFile))[i]
                           IN Entry(tmpDir \o e.path, e.type, e.data)]
            /\ pc' = "unzip"
            /\ UNCHANGED failedAt
       ELSE /\ fs' = IF MkdirpOk(fs, tmpDir) THEN Mkdirp(fs, tmpDir) ELSE fs
            /\ Reject("begin", "code")
            /\ UNCHANGED queue
  /\ UNCHANGED <<knownDirectories, baseBranch, zipFiles, idx, pending, mrLog>>
  /\ UNCHANGED gitVars

\* unzipFile: Parse emits the next entry and its handler starts its mkdir
EmitEntry ==
  /\ pc = "unzip"
  /\ queue # <<>>
  /\ pending' = pending \cup {[entry |-> Head(queue), phase |-> "mkdir"]}
  /\ queue' = Tail(queue)
  /\ UNCHANGED <<pc, fs, knownDirectories, baseBranch, zipFiles, idx, mrLog, failedAt>>
  /\ UNCHANGED gitVars

\* an entry handler's awaited mkdir completes: a directory entry is done, a
\* file entry is piped to a write stream that creates the file
HandlerMkdir(op) ==
  /\ op \in pending
  /\ op.phase = "mkdir"
  /\ pc # "aborted"
  /\ IF op.entry.type = "Directory"
       THEN IF MkdirpOk(fs, op.entry.path)
              THEN /\ fs' = Mkdirp(fs, op.entry.path)
                   /\ pending' = pending \ {op}
                   /\ UNCHANGED <<pc, failedAt>>
              ELSE /\ pc' = "aborted"
                   /\ failedAt' = [failed |-> TRUE, idx |-> idx, stage |-> "entry", cause |-> "code"]
                   /\ UNCHANGED <<fs, pending>>
       ELSE IF MkdirpOk(fs, Front(op.entry.path)) /\ ~IsDir(fs, op.entry.path)
              THEN /\ fs' = WriteFile(Mkdirp(fs, Front(op.entry.path)), op.entry.path, 0)
                   /\ pending' = (pending \ {op}) \cup {[entry |-> op.entry, phase |-> "write"]}
                   /\ UNCHANGED <<pc, failedAt>>
              ELSE /\ pc' = "aborted"
                   /\ failedAt' = [failed |-> TRUE, idx |-> idx, stage |-> "entry", cause |-> "code"]
                   /\ UNCHANGED <<fs, pending>>
  /\ UNCHANGED <<knownDirectories, baseBranch, zipFiles, idx, queue, mrLog>>
  /\ UNCHANGED gitVars

\* a write stream has written the whole entry
HandlerWrite(op) ==
  /\ op \in pending
  /\ op.phase = "write"
  /\ pc # "aborted"
  /\ fs' = IF IsFile(fs, op.entry.path)
             THEN WriteFile(fs, op.entry.path, op.entry.data)
             ELSE fs
  /\ pending' = pending \ {op}
  /\ UNCHANGED <<pc, knownDirectories, baseBranch, zipFiles, idx, queue, mrLog, failedAt>>
  /\ UNCHANGED gitVars

\* unzipFile: Parse emits 'close' once it has consumed the archive, and the
\* promise resolves
Close ==
  /\ pc = "unzip"
  /\ queue = <<>>
  /\ pc' = "sanitize"
  /\ UNCHANGED <<fs, knownDirectories, baseBranch, zipFiles, idx, queue, pending, mrLog, failedAt>>
  /\ UNCHANGED gitVars

\* processZipFile: removeGitFolders(tmpDir)
Sanitize ==
  /\ pc = "sanitize"
  /\ IF IsDir(fs, tmpDir) /\ tmpDir # <<>>
       THEN /\ fs' = removeGitFolders(fs, tmpDir)
            /\ pc' = "select"
            /\ UNCHANGED failedAt
       ELSE /\ Reject("sanitize", "code")
            /\ UNCHANGED fs
  /\ UNCHANGED <<knownDirectories, baseBranch, zipFiles, idx, queue, pending, mrLog>>
  /\ UNCHANGED gitVars

\* processZipFile: findAndCopyQFolders(tmpDir, repoDir)
Select ==
  /\ pc = "select"
  /\ \E rev \in BOOLEAN :
       LET r == findAndCopyQFolders(Walk(fs), tmpDir, repoDir, knownDirectories, rev)
       IN IF IsDir(fs, tmpDir) /\ r.ok
            THEN /\ fs' = r.fs
                 /\ pc' = "branch"
                 /\ UNCHANGED failedAt
            ELSE /\ Reject("select", "code")
                 /\ UNCHANGED fs
  /\ UNCHANGED <<knownDirectories, baseBranch, zipFiles, idx, queue, pending, mrLog>>
  /\ UNCHANGED gitVars

\* variant of CheckoutLocalBranch that switches to a branch that exists
\* instead of failing, which C16_BaseBranchUntouched tells apart
CheckoutLocalBranchOrSwitch ==
  /\ pc = "branch"
  /\ IF RepoOk(fs)
       THEN /\ branches' = IF branchName \in DOMAIN branches
                             THEN branches
                             ELSE (branchName :> branches[head]) @@ branches
            /\ head' = branchName
            /\ pc' = "add"
            /\ UNCHANGED failedAt
       ELSE /\ Reject("branch", "code")
            /\ UNCHANGED <<branches, head>>
  /\ UNCHANGED <<fs, knownDirectories, baseBranch, zipFiles, idx, queue, pending, mrLog,
                 index, remote, commits, pushes>>

\* processZipFile: git.checkoutLocalBranch(branchName)
CheckoutLocalBranch ==
  /\ pc = "branch"
  /\ IF RepoOk(fs) /\ branchName \notin DOMAIN branches
       THEN /\ branches' = (branchName :> branches[head]) @@ branches
            /\ head' = branchName
            /\ pc' = "add"
            /\ UNCHANGED failedAt
       ELSE /\ Reject("branch", "code")
            /\ UNCHANGED <<branches, head>>
  /\ UNCHANGED <<fs, knownDirectories, baseBranch, zipFiles, idx, queue, pending, mrLog,
                 index, remote, commits, pushes>>

\* processZipFile: git.add(".")
Add ==
  /\ pc = "add"
  /\ IF RepoOk(fs)
       THEN /\ index' = WorkTree(fs)
            /\ pc' = "commit"
            /\ UNCHANGED failedAt
       ELSE /\ Reject("add", "code")
            /\ UNCHANGED index
  /\ UNCHANGED <<fs, knownDirectories, baseBranch, zipFiles, idx, queue, pending, mrLog,
                 head, branches, remote, commits, pushes>>

\* processZipFile: git.commit(message); with nothing staged git commits
\* nothing and the call resolves
Commit ==
  /\ pc = "commit"
  /\ IF RepoOk(fs)
       THEN /\ commits' = Append(commits, [branch |-> head, file |-> Last(zipFile),
                                           changes |-> TreeDiff(branches[head], index)])
            /\ branches' = [branches EXCEPT ![head] = index]
            /\ pc' = "push"
            /\ UNCHANGED failedAt
       ELSE /\ Reject("commit", "code")
            /\ UNCHANGED <<commits, branches>>
  /\ UNCHANGED <<fs, knownDirectories, baseBranch, zipFiles, idx, queue, pending, mrLog,
                 head, index, remote, pushes>>

\* pushAndCreateMergeRequest: git.push(["-u", "origin", branchName, "--force"])
Push ==
  /\ pc = "push"
  /\ IF RepoOk(fs) /\ branchName \in DOMAIN branches
       THEN /\ remote' = (branchName :> branches[branchName]) @@ remote
            /\ pushes' = Append(pushes, branchName)
            /\ pc' = "post"
            /\ UNCHANGED failedAt
       ELSE /\ Reject("push", "code")
            /\ UNCHANGED <<remote, pushes>>
  /\ UNCHANGED <<fs, knownDirectories, baseBranch, zipFiles, idx, queue, pending, mrLog,
                 head, branches, index, commits>>

\* variant of OnPostError without the try/catch, which
\* C2_ApiFailureDoesNotAbort tells apart
OnPostErrorRethrow == "aborted"

\* variant of OnPostError that runs pushAndCreateMergeRequest again, which
\* C13_OnePushOnePost tells apart
OnPostErrorRetry == "push"

\* pushAndCreateMergeRequest: the outcome of a failed axios.post, caught and
\* logged
OnPostError == "cleanup"

\* pushAndCreateMergeRequest: axios.post of the merge request, which the
\* platform accepts or not
Post ==
  /\ pc = "post"
  /\ \E ok \in BOOLEAN :
       /\ mrLog' = Append(mrLog, [idx |-> idx, source |-> branchName,
                                  target |-> baseBranch, ok |-> ok])
       /\ pc' = IF ok THEN "cleanup" ELSE OnPostError
       /\ failedAt' = IF ~ok /\ OnPostError = "aborted"
                        THEN [failed |-> TRUE, idx |-> idx, stage |-> "post", cause |-> "env"]
                        ELSE failedAt
  /\ UNCHANGED <<fs, knownDirectories, baseBranch, zipFiles, idx, queue, pending>>
  /\ UNCHANGED gitVars

\* variant of Cleanup that leaves the scratch directory in place, which
\* C11_ScratchGoneAfterPush tells apart
CleanupKeeps ==
  /\ pc = "cleanup"
  /\ pending = {}
  /\ pc' = "restore"
  /\ UNCHANGED <<fs, knownDirectories, baseBranch, zipFiles, idx, queue, pending, mrLog, failedAt>>
  /\ UNCHANGED gitVars

\* processZipFile: promises.rm(tmpDir, {recursive: true, force: true}).
\* Bound of the model: the entry handlers still running at 'close' have
\* finished by now (four git commands and one HTTP round trip later).
Cleanup ==
  /\ pc = "cleanup"
  /\ pending = {}
  /\ fs' = RmRf(fs, tmpDir)
  /\ pc' = "restore"
  /\ UNCHANGED <<knownDirectories, baseBranch, zipFiles, idx, queue, pending, mrLog, failedAt>>
  /\ UNCHANGED gitVars

\* variant of RestoreBase without the checkout, which
\* C1_HeadIsBaseBeforeBranch tells apart
RestoreBaseNoCheckout ==
  /\ pc = "restore"
  /\ idx' = idx + 1
  /\ pc' = "begin"
  /\ UNCHANGED <<fs, knownDirectories, baseBranch, zipFiles, queue, pending, mrLog, failedAt>>
  /\ UNCHANGED gitVars

\* main's loop: git.checkout(baseBranch), then the next archive
RestoreBase ==
  /\ pc = "restore"
  /\ IF RepoOk(fs)
       THEN /\ fs' = Checkout(fs, branches[head], branches[baseBranch])
            /\ head' = baseBranch
            /\ idx' = idx + 1
            /\ pc' = "begin"
            /\ UNCHANGED failedAt
       ELSE /\ Reject("restore", "code")
            /\ UNCHANGED <<fs, head, idx>>
  /\ UNCHANGED <<knownDirectories, baseBranch, zipFiles, queue, pending, mrLog,
                 branches, index, remote, commits, pushes>>

\* main: the loop is over
Finish ==
  /\ pc = "begin"
  /\ idx > Len(zipFiles)
  /\ pc' = "done"
  /\ UNCHANGED <<fs, knownDirectories, baseBranch, zipFiles, idx, queue, pending, mrLog, failedAt>>
  /\ UNCHANGED gitVars

\* the statements whose awaited operation the environment may fail: the clone,
\* fetch and checkout of the preparation, the stream of the archive, the file
\* system and git calls of processZipFile, the checkout after it
Failable ==
  {"start", "begin", "unzip", "sanitize", "select", "branch", "add", "commit",
   "push", "cleanup", "restore"}

StepFails ==
  /\ pc \in Failable
  /\ ~(pc = "begin" /\ idx > Len(zipFiles))
  /\ Reject(pc, "env")
  /\ UNCHANGED <<fs, knownDirectories, baseBranch, zipFiles, idx, queue, pending, mrLog>>
  /\ UNCHANGED gitVars

Next ==
  \/ PrepareWorkspace
  \/ BeginArchive
  \/ EmitEntry
  \/ \E op \in pending : HandlerMkdir(op)
  \/ \E op \in pending : HandlerWrite(op)
  \/ Close
  \/ Sanitize
  \/ Select
  \/ CheckoutLocalBranch
  \/ Add
  \/ Commit
  \/ Push
  \/ Post
  \/ Cleanup
  \/ RestoreBase
  \/ Finish
  \/ StepFails

Spec == Init /\ [][Next]_vars

\* ------------------------------------------------------------------ claims

\* the loop turns that have completed a step of the pipeline
Turns == 1..Len(zipFiles)

\* the statements of a loop turn that run before the archive's branch exists
BeforeBranch == {"begin", "unzip", "sanitize", "select", "branch"}

\* C1: whenever a step of an archive that precedes its branch creation is
\* about to run (scratch creation, extraction, sanitizing, selecting, branch
\* creation), the checked-out branch is the base branch; at the start of a
\* loop turn the clone is intact.
C1_HeadIsBaseBeforeBranch ==
  /\ pc \in BeforeBranch => head = baseBranch
  /\ pc = "begin" => RepoOk(fs)

\* C1 witness: a second archive is about to get its branch after the first
\* one was committed on its own branch.
C1_Witness ==
  /\ pc = "branch"
  /\ idx = 2
  /\ Len(commits) = 1
  /\ commits[1].branch # baseBranch

GitInWorkTree(f) ==
  {n \in f : /\ IsPrefix(repoDir, n.path)
             /\ \E k \in 3..Len(n.path) : n.path[k] = GitName}

\* C3: no directory named .git that came from an archive is in the working
\* tree, at any depth.
C3_NoGitCopied == GitInWorkTree(fs) = {}

\* the directories below root whose name is in the allow-list
AllowListed(f, root, known) ==
  {d \in f : /\ d.kind = "dir"
             /\ IsPrefix(root, d.path) /\ Len(d.path) > Len(root)
             /\ Includes(known.list, Last(d.path))}

\* those of them that lie in no other directory of the allow-list below root
Outermost(f, root, known) ==
  {d \in AllowListed(f, root, known) :
     \A k \in (Len(root) + 1)..(Len(d.path) - 1) : ~Includes(known.list, d.path[k])}

FilesBelow(f, d) == {n \in f : n.kind = "file" /\ IsPrefix(d, n.path)}

\* the path below d of a path p in d, and where the selector copies it
Rel(d, p) == SubSeq(p, Len(d) + 1, Len(p))
Target(d, p) == repoDir \o <<Last(d)>> \o Rel(d, p)

\* the selector has run to its end in this step
SelectStep == pc = "select" /\ pc' = "branch"

\* C4 as stated: after selection every file of every allow-listed directory
\* of the scratch tree, at whatever depth the directory lies, is at the same
\* relative path below <working tree>/<directory name>, with the same bytes.
C4_EveryAllowListedCopied ==
  [][SelectStep =>
       \A d \in AllowListed(fs, tmpDir, knownDirectories) :
         \A n \in FilesBelow(fs, d.path) :
           /\ IsFile(fs', Target(d.path, n.path))
           /\ DataAt(fs', Target(d.path, n.path)) = n.data]_vars

\* C4 amended: after selection every file of every allow-listed directory
\* that lies in no other allow-listed directory is at the same relative path
\* below <working tree>/<directory name>, with the bytes of that file in one
\* of the outermost allow-listed directories of that name.
C4_OutermostCopied ==
  [][SelectStep =>
       \A d \in Outermost(fs, tmpDir, knownDirectories) :
         \A n \in FilesBelow(fs, d.path) :
           /\ IsFile(fs', Target(d.path, n.path))
           /\ \E e \in Outermost(fs, tmpDir, knownDirectories) :
                /\ Last(e.path) = Last(d.path)
                /\ IsFile(fs, e.path \o Rel(d.path, n.path))
                /\ DataAt(fs', Target(d.path, n.path))
                     = DataAt(fs, e.path \o Rel(d.path, n.path))]_vars

\* C4 witness: the selector has copied foo/Q1/report.txt of release-1.zip,
\* completely written, to Q1/report.txt of the working tree.
C4_Witness ==
  /\ pc = "branch"
  /\ Last(zipFile) = <<"release-1", ".zip">>
  /\ IsFile(fs, repoDir \o << <<"Q1">>, <<"report.txt">> >>)
  /\ DataAt(fs, repoDir \o << <<"Q1">>, <<"report.txt">> >>) = 1

\* the entries of the archive of loop turn i, as the intake directory held it
\* at the start
EntriesOf(i) == ArchiveEntries(ArchiveData(Last(zipFiles[i])))

\* the names of the directories an entry lies in or is
DirNames(e) ==
  {e.path[k] : k \in 1..(IF e.type = "Directory" THEN Len(e.path) ELSE Len(e.path) - 1)}

\* the archive of loop turn i has no directory named in the allow-list
NoMatch(i) ==
  \A k \in 1..Len(EntriesOf(i)) :
    \A name \in DirNames(EntriesOf(i)[k]) : ~Includes(knownDirectories.list, name)

\* the selector of loop turn i has thrown
SelectThrew(i) ==
  /\ failedAt.failed
  /\ failedAt.idx = i
  /\ failedAt.stage = "select"
  /\ failedAt.cause = "code"

CommitsOf(i) == {k \in 1..Len(commits) : commits[k].file = Last(zipFiles[i])}

\* C5: for an archive without a directory named in the allow-list the
\* selector signals no error and the archive's commit changes no file (the
\* branch, the push and the merge request follow as for any archive).
C5_NoMatchIsNoOp ==
  \A i \in Turns :
    NoMatch(i) =>
      /\ ~SelectThrew(i)
      /\ \A k \in CommitsOf(i) : commits[k].changes = {}

\* C5 with the allow-list configured: the commit of an archive without an
\* allow-listed directory changes no file and the selector does not throw.
C5_NoMatchIsNoOpWhenConfigured ==
  knownDirectories.defined => C5_NoMatchIsNoOp

\* the allow-list is unset, or set to the empty string
EmptyAllowList ==
  \/ ~knownDirectories.defined
  \/ knownDirectories.list = << <<>> >>

\* C6: with the allow-list empty or unset the selector never signals an error
\* and no commit changes a file.
C6_EmptyAllowListIsNoOp ==
  EmptyAllowList =>
    /\ \A i \in Turns : ~SelectThrew(i)
    /\ \A k \in 1..Len(commits) : commits[k].changes = {}

\* C7: two archives of the listing with distinct file names have distinct
\* branch names and distinct scratch directories.
C7_BranchNamesDistinct ==
  \A i, j \in Turns :
    Last(zipFiles[i]) # Last(zipFiles[j]) =>
      /\ branchNameOf(zipFiles[i]) # branchNameOf(zipFiles[j])
      /\ tmpDirOf(zipFiles[i]) # tmpDirOf(zipFiles[j])

\* C8: every archive of the listing is in the intake directory with the
\* bytes it had at the start, whatever steps have run.
C8_ArchivesUntouched ==
  \A i \in Turns :
    /\ IsFile(fs, zipFiles[i])
    /\ DataAt(fs, zipFiles[i]) = ArchiveData(Last(zipFiles[i]))

\* an entry is on disk where the extractor puts it, completely
Materialized(f, root, e) ==
  IF e.type = "Directory"
    THEN IsDir(f, root \o e.path)
    ELSE IsFile(f, root \o e.path) /\ DataAt(f, root \o e.path) = e.data

\* C9: when the extractor has signalled completion and the sanitizer is about
\* to start, no entry handler is unfinished and every entry of the archive is
\* on disk, files with their whole content.
C9_ExtractionCompleteAtClose ==
  pc = "sanitize" =>
    /\ pending = {}
    /\ \A k \in 1..Len(EntriesOf(idx)) : Materialized(fs, tmpDir, EntriesOf(idx)[k])

\* the statements of a loop turn that precede the push
BeforePush == BeforeBranch \cup {"add", "commit", "push"}

\* C10: once a statement other than the merge-request POST has failed, the
\* run is over at that statement: no merge request is requested for the
\* archive if the failure precedes its POST, none for a later archive, no
\* later archive is committed, and nothing at all is committed, pushed or
\* requested if the preparation failed.
C10_FailureEndsRun ==
  failedAt.failed =>
    /\ pc = "aborted"
    /\ idx = failedAt.idx
    /\ failedAt.stage # "post"
    /\ \A k \in 1..Len(mrLog) : mrLog[k].idx <= failedAt.idx
    /\ failedAt.stage \in BeforePush => \A k \in 1..Len(mrLog) : mrLog[k].idx < failedAt.idx
    /\ Len(commits) <= failedAt.idx
    /\ failedAt.stage = "start" =>
         idx = 0 /\ zipFiles = <<>> /\ commits = <<>> /\ pushes = <<>> /\ mrLog = <<>>

\* C10 witness: the commit of the first of two archives has failed and the
\* run is over with the second archive untouched.
C10_Witness ==
  /\ failedAt.failed
  /\ failedAt.stage = "commit"
  /\ failedAt.idx = 1
  /\ Len(zipFiles) = 2
  /\ pc = "aborted"
  /\ pushes = <<>>

\* the loop turns before the current one
EarlierTurns == {i \in Turns : i < idx}

ScratchPaths(f) == {n.path : n \in {m \in f : IsPrefix(tmpDir, m.path) /\ m.path # tmpDir}}

\* the statements of a loop turn from the sanitizer to the merge request
FromSanitize == {"sanitize", "select", "branch", "add", "commit", "push", "post"}

\* C12: from the start of the sanitizer walk on, no step adds a file or a
\* directory to the scratch space of the archive: the sanitizer and the
\* selector see the complete extracted tree.
C12_NothingAddedAfterSanitize ==
  [][(pc \in FromSanitize) => ScratchPaths(fs') \subseteq ScratchPaths(fs)]_vars

\* C13: the k-th push of the run is the push of the k-th archive's branch and
\* the k-th POST is the POST of the k-th archive, issued after that push, with
\* source its branch and target the base branch: no archive is pushed or
\* requested twice, and every archive processed to completion has its POST.
C13_OnePushOnePost ==
  /\ Len(pushes) <= idx
  /\ Len(mrLog) <= Len(pushes)
  /\ \A k \in 1..Len(pushes) :
       k \in Turns /\ pushes[k] = branchNameOf(zipFiles[k])
  /\ \A k \in 1..Len(mrLog) :
       /\ mrLog[k].idx = k
       /\ mrLog[k].source = branchNameOf(zipFiles[k])
       /\ mrLog[k].target = baseBranch
  /\ \A i \in EarlierTurns : i <= Len(mrLog)

\* C13 witness: a run of two archives has ended, the merge request of the
\* first was refused and that of the second accepted.
C13_Witness ==
  /\ pc = "done"
  /\ Len(zipFiles) = 2
  /\ Len(pushes) = 2
  /\ Len(mrLog) = 2
  /\ ~mrLog[1].ok
  /\ mrLog[2].ok

\* the directories the selector passes to copyDirectory when it walks the
\* scratch directory of the current archive, with either listing order
SelectorCopies(rev) ==
  findAndCopyQFolders(Walk(fs), tmpDir, repoDir, knownDirectories, rev).copied

\* C14: when the selector runs to its end, the directories it has passed to
\* copyDirectory are the directories of the scratch tree whose name is in the
\* allow-list and that lie in no directory whose name is in the allow-list:
\* none inside a matching directory, every one inside non-matching ones.
C14_CopiedIffOutermost ==
  [][SelectStep =>
       \A rev \in BOOLEAN :
         SelectorCopies(rev) = {d.path : d \in Outermost(fs, tmpDir, knownDirectories)}]_vars

\* C14 witness: with the allow-list Q1;Q2 the selector has copied Q1 and Q2 of
\* an archive that holds Q1/x and Q2/Q1/x: the nested Q1 is in the working
\* tree below Q2 and the Q1 of the working tree is the outer one.
C14_Witness ==
  /\ pc = "branch"
  /\ Last(zipFile) = <<".zip", ".zip">>
  /\ knownDirectories.list = << <<"Q1">>, <<"Q2">> >>
  /\ IsFile(fs, repoDir \o << <<"Q2">>, <<"Q1">>, <<"x">> >>)
  /\ DataAt(fs, repoDir \o << <<"Q2">>, <<"Q1">>, <<"x">> >>) = 6
  /\ IsFile(fs, repoDir \o << <<"Q1">>, <<"x">> >>)
  /\ DataAt(fs, repoDir \o << <<"Q1">>, <<"x">> >>) = 5

\* the files below the clone outside its metadata directory, by their path
\* below the clone
CloneFiles(f) ==
  { [path |-> SubSeq(n.path, 2, Len(n.path)), data |-> n.data] :
      n \in {m \in f : m.kind = "file" /\ IsPrefix(repoDir, m.path)
                                      /\ ~IsPrefix(gitDir, m.path)} }

\* the paths below the clone that the selector can write from the archive of
\* loop turn i: the path of a file entry from an allow-listed directory on
OwnPaths(i) ==
  { SubSeq(EntriesOf(i)[k].path, j, Len(EntriesOf(i)[k].path)) :
      <<k, j>> \in { kj \in (1..Len(EntriesOf(i))) \X (1..3) :
                      /\ EntriesOf(i)[kj[1]].type = "File"
                      /\ kj[2] < Len(EntriesOf(i)[kj[1]].path)
                      /\ Includes(knownDirectories.list, EntriesOf(i)[kj[1]].path[kj[2]]) } }

\* C15: at the start of every loop turn the clone holds the files of the base
\* branch and no other, and the commit of every archive changes only paths
\* that come from the archive's own entries and leaves the rest of the tree
\* as the base branch has it.
C15_CleanBase ==
  /\ pc = "begin" => CloneFiles(fs) = BaseTree
  /\ \A k \in 1..Len(commits) :
       /\ commits[k].changes \subseteq OwnPaths(k)
       /\ {t \in branches[commits[k].branch] : t.path \notin OwnPaths(k)} = BaseTree

\* the creation of the branch of the current archive has failed
BranchCreationFailed == failedAt.failed /\ failedAt.stage = "branch"

\* C16: the base branch keeps its tree, locally and on origin; the k-th commit
\* and the k-th push are on the branch of the k-th archive, which is not the
\* base branch and not the branch of another commit; an archive whose branch
\* creation failed has no commit and no push.
C16_BaseBranchUntouched ==
  /\ idx > 0 => branches[baseBranch] = BaseTree /\ remote[baseBranch] = BaseTree
  /\ \A k \in 1..Len(commits) :
       /\ commits[k].branch = branchNameOf(zipFiles[k])
       /\ commits[k].branch # baseBranch
       /\ \A j \in 1..Len(commits) : commits[j].branch = commits[k].branch => j = k
  /\ \A k \in 1..Len(pushes) :
       /\ pushes[k] # baseBranch
       /\ k <= Len(commits) /\ pushes[k] = commits[k].branch
  /\ BranchCreationFailed =>
       Len(commits) < failedAt.idx /\ Len(pushes) < failedAt.idx

\* C16 witness: the branch name of an archive is the name of the base branch,
\* its creation has failed and the run is over.
C16_Witness ==
  /\ pc = "aborted"
  /\ BranchCreationFailed
  /\ failedAt.cause = "code"
  /\ RepoOk(fs)
  /\ branchNameOf(zipFiles[failedAt.idx]) = baseBranch

\* C17: once the workspace is prepared the clone directory exists, and the
\* scratch directory of every archive of the listing is neither the clone
\* directory nor the intake directory.
C17_CloneNeverScratch ==
  /\ idx > 0 => IsDir(fs, repoDir)
  /\ \A i \in Turns :
       /\ tmpDirOf(zipFiles[i]) # repoDir
       /\ tmpDirOf(zipFiles[i]) # zipsDir

====
